---- MODULE Spec2Model ----
(***************************************************************************)
(* Model of the smart-protocol session of src/protocol/smart.rs            *)
(* (SmartProtocol<R, A>).                                                  *)
(*                                                                         *)
(* Byte strings (String, Bytes, BytesMut) are sequences of atoms.  An atom *)
(* is a run of bytes that the code never looks inside: a path segment, a   *)
(* hash, a keyword, one hex digit, or one of the separator bytes SP, LF,   *)
(* NUL and "/".  AtomLen gives the number of bytes an atom stands for.     *)
(* The repository path argument of every collaborator call is the same     *)
(* value throughout a session and is left out of the recorded arguments.   *)
(***************************************************************************)
EXTENDS Integers, Sequences, FiniteSets, TLC

\* ------------------------------------------------------------------ bounds
\* Longest command_list the session is driven to.
MaxCmds == 2
\* Longest capabilities vector the session is driven to.
MaxCaps == 2

\* ------------------------------------------------------------ byte strings
SP == " "
LF == "\n"
NUL == "NUL"
SLASH == "/"

\* SideBind::PackfileData.value(): the band byte 1, one byte.
PackfileData == "BAND1"
\* A run of 65515 bytes of pack data: with the band byte, the largest payload
\* of a pkt-line.
BLOB == "BLOB"

AtomLen(a) ==
    IF a \in {NUL, PackfileData} THEN 1
    ELSE IF a = BLOB THEN 65515
    ELSE Len(a)

RECURSIVE BytesLen(_)
BytesLen(s) == IF s = <<>> THEN 0 ELSE AtomLen(Head(s)) + BytesLen(Tail(s))

HexDigits == <<"0", "1", "2", "3", "4", "5", "6", "7",
               "8", "9", "a", "b", "c", "d", "e", "f">>

\* format!("{n:04x}")
Hex4(n) == << HexDigits[((n \div 4096) % 16) + 1],
              HexDigits[((n \div 256) % 16) + 1],
              HexDigits[((n \div 16) % 16) + 1],
              HexDigits[(n % 16) + 1] >>

HexVal(d) == (CHOOSE i \in 1..16 : HexDigits[i] = d) - 1

\* usize::from_str_radix(prefix, 16)
ParseHex4(p) == HexVal(p[1]) * 4096 + HexVal(p[2]) * 256 + HexVal(p[3]) * 16 + HexVal(p[4])

ZERO_ID == <<"0000000000000000000000000000000000000000">>

PKT_LINE_END_MARKER == <<"0", "0", "0", "0">>

\* The first atoms of s that make up n bytes.
RECURSIVE TakeBytes(_, _)
TakeBytes(s, n) ==
    IF n <= 0 \/ s = <<>> THEN <<>>
    ELSE <<Head(s)>> \o TakeBytes(Tail(s), n - AtomLen(Head(s)))

\* add_pkt_line_string(out, s): the buffer after the call.
add_pkt_line_string(out, s) == out \o Hex4(BytesLen(s) + 4) \o s

\* read_pkt_line(bytes): what it returns (take, line) and what is left of the
\* buffer (rest).
read_pkt_line(bytes) ==
    IF bytes = <<>> THEN [take |-> 0, line |-> <<>>, rest |-> <<>>]
    ELSE LET pkt_length == ParseHex4(SubSeq(bytes, 1, 4))
             after == SubSeq(bytes, 5, Len(bytes))
         IN  IF pkt_length = 0
             THEN [take |-> 4, line |-> <<>>, rest |-> after]
             ELSE LET pkt_line == TakeBytes(after, pkt_length - 4)
                  IN  [take |-> pkt_length, line |-> pkt_line,
                       rest |-> SubSeq(after, Len(pkt_line) + 1, Len(after))]

IsWhiteSpace(a) == a \in {SP, LF, NUL}

\* The index of the first separator byte of bytes at or after i, Len + 1 if
\* there is none.
RECURSIVE first_white_space(_, _)
first_white_space(bytes, i) ==
    IF i > Len(bytes) THEN i
    ELSE IF IsWhiteSpace(bytes[i]) THEN i
    ELSE first_white_space(bytes, i + 1)

\* read_until_white_space(bytes): the token read (word) and what is left of
\* the buffer, the separator consumed (rest).
read_until_white_space(bytes) ==
    [ word |-> SubSeq(bytes, 1, first_white_space(bytes, 1) - 1),
      rest |-> SubSeq(bytes, first_white_space(bytes, 1) + 1, Len(bytes)) ]

\* Every pkt-line of a buffer, in order, a flush marker read as <<>>.
RECURSIVE PktLines(_)
PktLines(bytes) ==
    IF bytes = <<>> THEN <<>>
    ELSE LET r == read_pkt_line(bytes) IN <<r.line>> \o PktLines(r.rest)

starts_with(s, p) == Len(s) >= Len(p) /\ SubSeq(s, 1, Len(p)) = p
ends_with(s, p) == Len(s) >= Len(p) /\ SubSeq(s, Len(s) - Len(p) + 1, Len(s)) = p

\* [T]::contains
Contains(s, a) == \E i \in 1..Len(s) : s[i] = a

\* The element of a one-element set: names a value computed once.
Only(S) == CHOOSE x \in S : TRUE

\* ------------------------------------------------------------------ types
\* Option<T>
None == [some |-> FALSE, v |-> <<>>]
Some(x) == [some |-> TRUE, v |-> x]

\* Result<T, ProtocolError>: Ok(v), or Err of a kind with a message.  Every
\* value carried is a sequence of atoms: a bool is <<"true">> or <<"false">>,
\* the unit value is <<>>.
True == <<"true">>
False == <<"false">>
Ok(x) == [ok |-> TRUE, kind |-> "", v |-> x]
Err(k, m) == [ok |-> FALSE, kind |-> k, v |-> m]

\* ProtocolError::invalid_request(msg), ProtocolError::repository_error(msg)
invalid_request(m) == Err("InvalidRequest", m)
repository_error(m) == Err("RepositoryError", m)

\* e.to_string() of the error a collaborator reported: its message.
to_string(e) == e.v

\* ServiceType
UploadPack == <<"UploadPack">>
ReceivePack == <<"ReceivePack">>

\* RefCommand::new(old_hash, new_hash, ref_name)
RefCommand_new(old_hash, new_hash, ref_name) ==
    [ ref_name |-> ref_name, old_hash |-> old_hash, new_hash |-> new_hash,
      ref_type |-> IF starts_with(ref_name, <<"refs", SLASH, "tags", SLASH>>)
                   THEN "Tag" ELSE "Branch",
      default_branch |-> FALSE, status |-> "ok", error_msg |-> <<>> ]

\* command.failed(msg)
failed(command, msg) == [command EXCEPT !.status = "ng", !.error_msg = msg]

\* The status line of a command that succeeded.  It carries no line feed:
\* test_receive_pack_stream_status_report reads it back as "ok refs/heads/main".
ok_status_line(command) == <<"ok", SP>> \o command.ref_name

\* The status line of a command that failed: `ng <ref> <message>\n`.
ng_status_line(command) ==
    <<"ng", SP>> \o command.ref_name \o <<SP>> \o command.error_msg \o <<LF>>

\* command.get_status()
get_status(command) ==
    IF command.status = "ok" THEN ok_status_line(command) ELSE ng_status_line(command)

\* ------------------------------------------------------------------ state
VARIABLES
    transport_protocol,  \* SmartProtocol.transport_protocol
    service_type,        \* SmartProtocol.service_type: Option<ServiceType>
    capabilities,        \* SmartProtocol.capabilities: Vec<Capability>
    side_bind,           \* SmartProtocol.side_bind: Option<SideBind>
    command_list,        \* SmartProtocol.command_list: Vec<RefCommand>
    op,                  \* the operation that ran last
    input,               \* the request it was given (bytes, or the chunks of a stream)
    calls,               \* the collaborator calls it made, in order, with their answers
    ret                  \* what it returned

vars == <<transport_protocol, service_type, capabilities, side_bind, command_list,
          op, input, calls, ret>>

session == <<transport_protocol, service_type, capabilities, side_bind, command_list>>

\* A collaborator call: the function, its arguments and its answer.
Call(fn, args, res) == [fn |-> fn, args |-> args, res |-> res]

\* SmartProtocol::new(transport_protocol, repo_storage, auth_service)
Init ==
    /\ transport_protocol \in {"Http", "Ssh"}
    /\ service_type = None
    /\ capabilities = <<>>
    /\ side_bind = None
    /\ command_list = <<>>
    /\ op = "new"
    /\ input = <<>>
    /\ calls = <<>>
    /\ ret = Ok(<<>>)

\* set_service_type(service_type)
set_service_type ==
    \E st \in {UploadPack, ReceivePack} :
        /\ service_type' = Some(st)
        /\ op' = "set_service_type"
        /\ input' = <<>>
        /\ calls' = <<>>
        /\ ret' = Ok(<<>>)
        /\ UNCHANGED <<transport_protocol, capabilities, side_bind, command_list>>

\* set_transport_protocol(protocol)
set_transport_protocol ==
    \E protocol \in {"Http", "Ssh"} :
        /\ transport_protocol' = protocol
        /\ op' = "set_transport_protocol"
        /\ input' = <<>>
        /\ calls' = <<>>
        /\ ret' = Ok(<<>>)
        /\ UNCHANGED <<service_type, capabilities, side_bind, command_list>>

\* ------------------------------------------------- git_receive_pack_stream
\* The index of the first chunk of the stream that is an error, 0 if none:
\* the `while let Some(chunk_result)` loop leaves at that chunk.
\* Mutant: a failed chunk is not noticed.
first_stream_error_blind(data_stream, i) == 0

RECURSIVE first_stream_error(_, _)
first_stream_error(data_stream, i) ==
    IF i > Len(data_stream) THEN 0
    ELSE IF ~data_stream[i].ok THEN i
    ELSE first_stream_error(data_stream, i + 1)

\* pack_data.extend_from_slice(&chunk) over the whole stream
RECURSIVE collect_pack_data(_)
collect_pack_data(data_stream) ==
    IF data_stream = <<>> THEN <<>>
    ELSE Head(data_stream).v \o collect_pack_data(Tail(data_stream))

\* Mutant: the old hash is passed as it is.
old_hash_always_some(command) == Some(command.old_hash)

\* Convert ZERO_ID to None for old hash
old_hash_opt(command) ==
    IF command.old_hash = ZERO_ID THEN None ELSE Some(command.old_hash)

\* Mutant: the promotion is not remembered.
promote_forgets(command, default_exist) ==
    IF command.ref_type = "Tag" THEN [command |-> command, default_exist |-> default_exist]
    ELSE IF ~default_exist
         THEN [command |-> [command EXCEPT !.default_branch = TRUE],
               default_exist |-> default_exist]
         ELSE [command |-> command, default_exist |-> default_exist]

\* Mutant: the ref type is not looked at.
promote_any_ref(command, default_exist) ==
    IF ~default_exist
    THEN [command |-> [command EXCEPT !.default_branch = TRUE], default_exist |-> TRUE]
    ELSE [command |-> command, default_exist |-> default_exist]

\* Handle default branch setting for the first branch: the command and
\* default_exist after lines 304 and 321-324.
promote(command, default_exist) ==
    IF command.ref_type = "Tag" THEN [command |-> command, default_exist |-> default_exist]
    ELSE IF ~default_exist
         THEN [command |-> [command EXCEPT !.default_branch = TRUE], default_exist |-> TRUE]
         ELSE [command |-> command, default_exist |-> default_exist]

\* Mutant: a command whose update fails loses the default-branch flag.
update_one_unflags(command, answer) ==
    [ command |-> IF answer.ok THEN command
                  ELSE [failed(command, to_string(answer)) EXCEPT !.default_branch = FALSE],
      call |-> Call("update_reference",
                    <<command.ref_name, old_hash_opt(command), command.new_hash>>,
                    answer) ]

\* Mutant: the error of update_reference is dropped.
update_one_swallows(command, answer) ==
    [ command |-> command,
      call |-> Call("update_reference",
                    <<command.ref_name, old_hash_opt(command), command.new_hash>>,
                    answer) ]

\* The update_reference call of one command and the command after it:
\* `if let Err(e) = update_reference(..) { command.failed(e.to_string()) }`.
update_one(command, answer) ==
    [ command |-> IF answer.ok THEN command ELSE failed(command, to_string(answer)),
      call |-> Call("update_reference",
                    <<command.ref_name, old_hash_opt(command), command.new_hash>>,
                    answer) ]

\* Mutant: only the commands that succeeded are reported.
report_line_ok_only(report_status, command) ==
    IF command.status = "ok"
    THEN add_pkt_line_string(report_status, get_status(command))
    ELSE report_status

\* add_pkt_line_string(&mut report_status, command.get_status())
report_line(report_status, command) ==
    add_pkt_line_string(report_status, get_status(command))

\* `for command in &mut self.command_list { .. }`: the commands from index i
\* on, with the answers upd of update_reference.  Gives the list, the calls
\* made and the status report after the loop.
RECURSIVE update_refs(_, _, _, _, _, _)
update_refs(cmds, i, default_exist, upd, done, report_status) ==
    IF i > Len(cmds) THEN [command_list |-> cmds, calls |-> done, report |-> report_status]
    ELSE Only({ update_refs([cmds EXCEPT ![i] = u.command], i + 1, p.default_exist, upd,
                            Append(done, u.call),
                            report_line(report_status, u.command))
                : <<p, u>> \in { <<q, update_one(q.command, upd[i])>>
                                 : q \in {promote(cmds[i], default_exist)} } })

\* Mutant: the hook runs before the ref updates.
apply_and_report_hook_first(cmds, default_exist, upd, hook, done, report_status) ==
    Only({ IF ~hook.ok
           THEN [ command_list |-> r.command_list,
                  calls |-> r.calls,
                  ret |-> repository_error(<<"Post-receive", SP, "hook", SP, "failed:", SP>>
                                           \o to_string(hook)) ]
           ELSE [ command_list |-> r.command_list,
                  calls |-> r.calls,
                  ret |-> Ok(r.report \o PKT_LINE_END_MARKER) ]
           : r \in {update_refs(cmds, 1, default_exist, upd,
                                Append(done, Call("post_receive_hook", <<>>, hook)),
                                report_status)} })

\* The part of git_receive_pack_stream after has_default_branch answered:
\* the ref updates, the post-receive hook and the end of the report.
apply_and_report(cmds, default_exist, upd, hook, done, report_status) ==
    Only({ IF ~hook.ok
           THEN [ command_list |-> r.command_list,
                  calls |-> Append(r.calls, Call("post_receive_hook", <<>>, hook)),
                  ret |-> repository_error(<<"Post-receive", SP, "hook", SP, "failed:", SP>>
                                           \o to_string(hook)) ]
           ELSE [ command_list |-> r.command_list,
                  calls |-> Append(r.calls, Call("post_receive_hook", <<>>, hook)),
                  ret |-> Ok(r.report \o PKT_LINE_END_MARKER) ]
           : r \in {update_refs(cmds, 1, default_exist, upd, done, report_status)} })

\* Mutant: the codec's error is not propagated.
unpack_never_aborts(unpack) == FALSE

\* `unpack_stream(..).await?`: a codec error ends the call.
unpack_aborts(unpack) == ~unpack.ok

\* git_receive_pack_stream(repo_path, data_stream) on the list cmds, with the
\* answers of the pack codec (unpack) and of the repository (handle, hdb, upd,
\* hook): the list, the calls made and the value returned.
receive_pack(cmds, data_stream, unpack, handle, hdb, upd, hook) ==
    LET bad == first_stream_error(data_stream, 1)
        pack_data == collect_pack_data(data_stream)
        c1 == <<Call("unpack_stream", <<pack_data>>, unpack)>>
        c2 == Append(c1, Call("handle_pack_objects", <<unpack.v>>, handle))
        c3 == Append(c2, Call("has_default_branch", <<>>, hdb))
        report_status == add_pkt_line_string(<<>>, <<"unpack", SP, "ok", LF>>)
    IN  IF bad # 0
        THEN [ command_list |-> cmds, calls |-> <<>>,
               ret |-> invalid_request(<<"Stream", SP, "error:", SP>>
                                       \o to_string(data_stream[bad])) ]
        ELSE IF unpack_aborts(unpack)
        THEN [command_list |-> cmds, calls |-> c1, ret |-> unpack]
        ELSE IF ~handle.ok
        THEN [ command_list |-> cmds, calls |-> c2,
               ret |-> repository_error(<<"Failed", SP, "to", SP, "store", SP, "pack", SP,
                                          "objects:", SP>> \o to_string(handle)) ]
        ELSE IF ~hdb.ok
        THEN [ command_list |-> cmds, calls |-> c3,
               ret |-> repository_error(<<"Failed", SP, "to", SP, "check", SP, "default", SP,
                                          "branch:", SP>> \o to_string(hdb)) ]
        ELSE apply_and_report(cmds, hdb.v = True, upd, hook, c3, report_status)

\* Inputs of git_receive_pack_stream.
PackChunk == <<"PACK">>
UpdAnswers == {Ok(<<>>), Err("RepositoryError", <<"locked">>)}
HookAnswers == {Ok(<<>>), Err("RepositoryError", <<"hook", SP, "exit", SP, "1">>)}

GoodStreams == {<<>>, <<Ok(PackChunk)>>, <<Ok(PackChunk), Ok(PackChunk)>>}
BadStreams == { <<Err("IoError", <<"reset">>)>>,
                <<Ok(PackChunk), Err("IoError", <<"reset">>)>> }

\* The answers a call of git_receive_pack_stream on a list of n commands can
\* meet.  An answer the call never asks for is fixed, so that each run of the
\* handler is drawn once.
ReceiveInputs(n) ==
    LET quiet == [i \in 1..n |-> Ok(<<>>)]
        R(ds, un, ha, hd, up, ho) ==
            [data_stream |-> ds, unpack |-> un, handle |-> ha, hdb |-> hd,
             upd |-> up, hook |-> ho]
    IN       { R(ds, Ok(<<>>), Ok(<<>>), Ok(True), quiet, Ok(<<>>)) : ds \in BadStreams }
        \cup { R(<<Ok(PackChunk)>>, Err("PackError", <<"corrupt">>), Ok(<<>>), Ok(True),
                 quiet, Ok(<<>>)) }
        \cup { R(<<Ok(PackChunk)>>, Ok(<<"objects">>), Err("RepositoryError", <<"full">>),
                 Ok(True), quiet, Ok(<<>>)) }
        \cup { R(<<Ok(PackChunk)>>, Ok(<<"objects">>), Ok(<<>>),
                 Err("RepositoryError", <<"offline">>), quiet, Ok(<<>>)) }
        \cup { R(ds, Ok(<<"objects">>), Ok(<<>>), Ok(True), quiet, Ok(<<>>))
                 : ds \in GoodStreams }
        \cup { R(<<Ok(PackChunk)>>, Ok(<<"objects">>), Ok(<<>>), Ok(b), up, ho)
                 : b \in {True, False}, up \in [1..n -> UpdAnswers], ho \in HookAnswers }

git_receive_pack_stream ==
    \E in \in ReceiveInputs(Len(command_list)) :
        \E r \in {receive_pack(command_list, in.data_stream, in.unpack, in.handle,
                              in.hdb, in.upd, in.hook)} :
            /\ command_list' = r.command_list
            /\ op' = "git_receive_pack_stream"
            /\ input' = in.data_stream
            /\ calls' = r.calls
            /\ ret' = r.ret
            /\ UNCHANGED <<transport_protocol, service_type, capabilities, side_bind>>

\* ---------------------------------------------- parse_receive_pack_commands
\* parse_ref_command(pkt_line): three tokens; the rest of the line is read
\* into _capabilities and dropped.
parse_ref_command(pkt_line) ==
    LET old_id == read_until_white_space(pkt_line)
        new_id == read_until_white_space(old_id.rest)
        ref_name == read_until_white_space(new_id.rest)
    IN  RefCommand_new(old_id.word, new_id.word, ref_name.word)

\* The loop of parse_receive_pack_commands: the commands pushed, in order.
RECURSIVE parse_commands(_)
parse_commands(protocol_bytes) ==
    LET r == read_pkt_line(protocol_bytes)
    IN  IF r.take = 0 THEN <<>>
        ELSE IF r.line = <<>> THEN <<>>
        ELSE <<parse_ref_command(r.line)>> \o parse_commands(r.rest)

H1 == <<"1111111111111111111111111111111111111111">>
H2 == <<"2222222222222222222222222222222222222222">>
H3 == <<"3333333333333333333333333333333333333333">>

RefMain == <<"refs", SLASH, "heads", SLASH, "main">>
RefOther == <<"refs", SLASH, "heads", SLASH, "other">>
RefTag == <<"refs", SLASH, "tags", SLASH, "v1">>

\* Command lines `<old> <new> <ref>[\0<caps>]` a client sends.
CommandLines ==
    { ZERO_ID \o <<SP>> \o H1 \o <<SP>> \o RefMain,
      H1 \o <<SP>> \o H2 \o <<SP>> \o RefOther \o <<LF>>,
      ZERO_ID \o <<SP>> \o H1 \o <<SP>> \o RefTag
          \o <<NUL, "report-status", SP, "side-band-64k">> }

\* A push that deletes a branch and creates another, and a push that creates
\* a branch and names a ref with both ids zero.
CreateLine == ZERO_ID \o <<SP>> \o H1 \o <<SP>> \o RefMain
DeleteLine == H2 \o <<SP>> \o ZERO_ID \o <<SP>> \o RefOther \o <<LF>>
BothZeroLine == ZERO_ID \o <<SP>> \o ZERO_ID \o <<SP>> \o RefOther \o <<LF>>

Frame(line) == add_pkt_line_string(<<>>, line)

ReceiveRequests ==
         { <<>> }
    \cup { Frame(a) \o PKT_LINE_END_MARKER : a \in CommandLines }
    \cup { Frame(a) \o Frame(b) : a \in CommandLines, b \in CommandLines }
    \cup { Frame(a) \o PKT_LINE_END_MARKER \o Frame(b) : a \in CommandLines, b \in CommandLines }
    \cup { Frame(DeleteLine) \o Frame(CreateLine) \o PKT_LINE_END_MARKER,
           Frame(CreateLine) \o Frame(BothZeroLine) \o PKT_LINE_END_MARKER }

\* parse_commands over the requests, computed once.
ParsedRequests == [b \in ReceiveRequests |-> parse_commands(b)]

parse_receive_pack_commands ==
    \E protocol_bytes \in ReceiveRequests :
        LET parsed == ParsedRequests[protocol_bytes]
        IN  /\ Len(command_list) + Len(parsed) <= MaxCmds
            /\ command_list' = command_list \o parsed
            /\ op' = "parse_receive_pack_commands"
            /\ input' = protocol_bytes
            /\ calls' = <<>>
            /\ ret' = Ok(<<>>)
            /\ UNCHANGED <<transport_protocol, service_type, capabilities, side_bind>>

\* -------------------------------------------------------- parse_capabilities
\* cap_str.split_whitespace(): the tokens of a string, in order.
RECURSIVE split_whitespace(_, _)
split_whitespace(str, token) ==
    IF str = <<>> THEN (IF token = <<>> THEN <<>> ELSE <<token>>)
    ELSE IF Head(str) \in {SP, LF}
         THEN (IF token = <<>> THEN <<>> ELSE <<token>>) \o split_whitespace(Tail(str), <<>>)
         ELSE split_whitespace(Tail(str), Append(token, Head(str)))

\* cap.parse::<Capability>(): the tokens that decode, and what they decode to.
CapabilityNames ==
    [ t \in { <<"multi_ack">>, <<"multi_ack_detailed">>, <<"side-band">>,
              <<"side-band-64k">>, <<"ofs-delta">>, <<"report-status">>,
              <<"no-done">>, <<"thin-pack">> } |->
        CASE t = <<"multi_ack">> -> "MultiAck"
          [] t = <<"multi_ack_detailed">> -> "MultiAckDetailed"
          [] t = <<"side-band">> -> "SideBand"
          [] t = <<"side-band-64k">> -> "SideBand64k"
          [] t = <<"ofs-delta">> -> "OfsDelta"
          [] t = <<"report-status">> -> "ReportStatus"
          [] t = <<"no-done">> -> "NoDone"
          [] t = <<"thin-pack">> -> "ThinPack" ]

\* The capabilities pushed for a list of tokens.
RECURSIVE decode_capabilities(_)
decode_capabilities(tokens) ==
    IF tokens = <<>> THEN <<>>
    ELSE (IF Head(tokens) \in DOMAIN CapabilityNames
          THEN <<CapabilityNames[Head(tokens)]>> ELSE <<>>)
         \o decode_capabilities(Tail(tokens))

\* Mutant: a token that does not decode ends the loop.
RECURSIVE decode_until_unknown(_)
decode_until_unknown(tokens) ==
    IF tokens = <<>> THEN <<>>
    ELSE IF Head(tokens) \in DOMAIN CapabilityNames
         THEN <<CapabilityNames[Head(tokens)]>> \o decode_until_unknown(Tail(tokens))
         ELSE <<>>

parse_capabilities_until_unknown(caps, cap_str) ==
    caps \o decode_until_unknown(split_whitespace(cap_str, <<>>))

\* parse_capabilities(cap_str): self.capabilities after the call on caps.
parse_capabilities(caps, cap_str) ==
    caps \o decode_capabilities(split_whitespace(cap_str, <<>>))

\* ------------------------------------------------------------ git_upload_pack
\* Mutant: a `done` line is skipped like an unknown line.
RECURSIVE upload_parse_past_done(_, _, _, _, _)
upload_parse_past_done(upload_request, want, have, caps, read_first_line) ==
    Only({ IF r.take = 0 \/ r.line = <<>>
           THEN [want |-> want, have |-> have, capabilities |-> caps]
           ELSE Only({
                CASE command.word = <<"want">> ->
                       Only({ upload_parse_past_done(r.rest, Append(want, hash.word), have,
                                           IF ~read_first_line
                                           THEN parse_capabilities(caps, hash.rest)
                                           ELSE caps,
                                           TRUE)
                              : hash \in {read_until_white_space(command.rest)} })
                  [] command.word = <<"have">> ->
                       upload_parse_past_done(r.rest, want,
                                    Append(have, read_until_white_space(command.rest).word),
                                    caps, read_first_line)
                  [] OTHER ->
                       upload_parse_past_done(r.rest, want, have, caps, read_first_line)
                : command \in {read_until_white_space(r.line)} })
           : r \in {read_pkt_line(upload_request)} })

\* The parsing loop of git_upload_pack from the buffer on: want, have, and
\* the capabilities of the session after it.
RECURSIVE upload_parse(_, _, _, _, _)
upload_parse(upload_request, want, have, caps, read_first_line) ==
    Only({ IF r.take = 0 \/ r.line = <<>>
           THEN [want |-> want, have |-> have, capabilities |-> caps]
           ELSE Only({
                CASE command.word = <<"want">> ->
                       Only({ upload_parse(r.rest, Append(want, hash.word), have,
                                           IF ~read_first_line
                                           THEN parse_capabilities(caps, hash.rest)
                                           ELSE caps,
                                           TRUE)
                              : hash \in {read_until_white_space(command.rest)} })
                  [] command.word = <<"have">> ->
                       upload_parse(r.rest, want,
                                    Append(have, read_until_white_space(command.rest).word),
                                    caps, read_first_line)
                  [] command.word = <<"done">> ->
                       [want |-> want, have |-> have, capabilities |-> caps]
                  [] OTHER ->
                       upload_parse(r.rest, want, have, caps, read_first_line)
                : command \in {read_until_white_space(r.line)} })
           : r \in {read_pkt_line(upload_request)} })

\* Mutant: the answer of commit_exists is not looked at.
ack_common_unchecked(protocol_buf, hash, exists) ==
    add_pkt_line_string(protocol_buf, <<"ACK", SP>> \o hash \o <<SP, "common", LF>>)

\* `if exists { add_pkt_line_string(.., "ACK {hash} common\n") .. }`: the
\* protocol buffer after one have.
ack_common(protocol_buf, hash, exists) ==
    IF exists
    THEN add_pkt_line_string(protocol_buf, <<"ACK", SP>> \o hash \o <<SP, "common", LF>>)
    ELSE protocol_buf

\* `if last_common_commit.is_empty() { last_common_commit = hash.clone() }`
\* inside `if exists`.
remember_common(last_common_commit, hash, exists) ==
    IF exists /\ last_common_commit = <<>> THEN hash ELSE last_common_commit

\* `for hash in &have { commit_exists .. }` from index i on, with the answers
\* exists of commit_exists: the calls made, the protocol buffer, the first
\* common commit, and the failed answer that ended the loop, if any.
RECURSIVE check_common(_, _, _, _, _, _)
check_common(have, i, exists, done, protocol_buf, last_common_commit) ==
    IF i > Len(have)
    THEN [ calls |-> done, protocol_buf |-> protocol_buf,
           last_common_commit |-> last_common_commit, failed |-> None ]
    ELSE IF ~exists[i].ok
    THEN [ calls |-> Append(done, Call("commit_exists", <<have[i]>>, exists[i])),
           protocol_buf |-> protocol_buf,
           last_common_commit |-> last_common_commit, failed |-> Some(to_string(exists[i])) ]
    ELSE check_common(have, i + 1, exists,
                      Append(done, Call("commit_exists", <<have[i]>>, exists[i])),
                      ack_common(protocol_buf, have[i], exists[i].v = True),
                      remember_common(last_common_commit, have[i], exists[i].v = True))

\* The end of a branch of git_upload_pack: the pack generator is asked for a
\* pack and `Ok((pack_stream, protocol_buf))` or its error is returned.
with_pack(done, fn, args, pack, protocol_buf) ==
    [ calls |-> Append(done, Call(fn, args, pack)),
      ret |-> IF pack.ok THEN Ok(protocol_buf) ELSE pack ]

\* git_upload_pack after the parsing loop, with the answers exists of
\* commit_exists and pack of the pack generator.
negotiate(want, have, exists, pack) ==
    IF have = <<>>
    THEN with_pack(<<>>, "generate_full_pack", <<want>>, pack,
                   add_pkt_line_string(<<>>, <<"NAK", LF>>))
    ELSE Only({
         IF c.failed.some
         THEN [ calls |-> c.calls,
                ret |-> repository_error(<<"Failed", SP, "to", SP, "check", SP, "commit", SP,
                                           "existence:", SP>> \o c.failed.v) ]
         ELSE IF c.last_common_commit = <<>>
         THEN with_pack(c.calls, "generate_full_pack", <<want>>, pack,
                        add_pkt_line_string(c.protocol_buf, <<"NAK", LF>>))
         ELSE with_pack(c.calls, "generate_incremental_pack", <<want, have>>, pack,
                        add_pkt_line_string(
                            add_pkt_line_string(c.protocol_buf,
                                <<"ACK", SP>> \o c.last_common_commit \o <<SP, "ready", LF>>)
                            \o PKT_LINE_END_MARKER,
                            <<"ACK", SP>> \o c.last_common_commit \o <<SP, LF>>))
         : c \in {check_common(have, 1, exists, <<>>, <<>>, <<>>)} })

\* Request lines of a fetch.
WantLine(hash, tail) == <<"want", SP>> \o hash \o tail \o <<LF>>
HaveLine(hash) == <<"have", SP>> \o hash \o <<LF>>
DoneLine == <<"done", LF>>

UploadRequests ==
    { <<>>,
      Frame(WantLine(H1, <<SP, "side-band-64k", SP, "bogus-cap">>))
          \o PKT_LINE_END_MARKER \o Frame(DoneLine),
      Frame(WantLine(H1, <<>>)) \o Frame(HaveLine(H2)) \o Frame(HaveLine(H3))
          \o Frame(DoneLine),
      Frame(WantLine(H1, <<SP, "ofs-delta">>)) \o Frame(WantLine(H2, <<SP, "no-done">>))
          \o Frame(HaveLine(H2)) \o PKT_LINE_END_MARKER \o Frame(HaveLine(H3)),
      Frame(<<"shallow", SP>> \o H3 \o <<LF>>) \o Frame(WantLine(H1, <<>>))
          \o Frame(HaveLine(H3)) \o Frame(DoneLine) \o Frame(HaveLine(H2)),
      Frame(WantLine(H1, <<>>)) \o Frame(<<"have", LF>>) \o Frame(HaveLine(H2)),
      Frame(WantLine(H2, <<SP, "side-band">>)) \o PKT_LINE_END_MARKER,
      Frame(WantLine(H1, <<>>)) \o Frame(<<>>) \o Frame(HaveLine(H2)) \o Frame(DoneLine),
      Frame(WantLine(H1, <<SP, "unknown-cap", SP, "thin-pack">>))
          \o Frame(<<"have", SP>> \o H2 \o <<SP, "ofs-delta", LF>>) \o Frame(DoneLine) }

ExistsAnswers == {Ok(True), Ok(False), Err("RepositoryError", <<"db", SP, "down">>)}
PackAnswers == {Ok(<<"pack_stream">>), Err("PackError", <<"missing", SP, "object">>)}

\* The answers a negotiation over n haves can meet: commit_exists is not
\* asked again after it failed, and no pack is asked for then.
UploadInputs(n) ==
    { x \in [exists : [1..n -> ExistsAnswers], pack : PackAnswers] :
        \A i \in 1..n :
            ~x.exists[i].ok =>
                /\ x.pack.ok
                /\ \A j \in (i + 1)..n : x.exists[j] = Ok(False) }

git_upload_pack ==
    \E upload_request \in UploadRequests :
      \E parsed \in {upload_parse(upload_request, <<>>, <<>>, capabilities, FALSE)} :
        \E in \in UploadInputs(Len(parsed.have)) :
          \E r \in {negotiate(parsed.want, parsed.have, in.exists, in.pack)} :
            /\ Len(parsed.capabilities) <= MaxCaps
            /\ capabilities' = parsed.capabilities
            /\ op' = "git_upload_pack"
            /\ input' = upload_request
            /\ calls' = r.calls
            /\ ret' = r.ret
            /\ UNCHANGED <<transport_protocol, service_type, side_bind, command_list>>

\* -------------------------------------------------------------- git_info_refs
UPLOAD_CAP_LIST == <<"UPLOAD_CAP_LIST">>
RECEIVE_CAP_LIST == <<"RECEIVE_CAP_LIST">>
COMMON_CAP_LIST == <<"COMMON_CAP_LIST">>

\* service_type.to_string()
service_name(st) == IF st = UploadPack THEN <<"git-upload-pack">> ELSE <<"git-receive-pack">>

\* build_smart_reply(transport_protocol, &ref_list, service)
RECURSIVE add_ref_lines(_, _)
add_ref_lines(out, ref_list) ==
    IF ref_list = <<>> THEN out
    ELSE add_ref_lines(add_pkt_line_string(out, Head(ref_list)), Tail(ref_list))

build_smart_reply(transport, ref_list, service) ==
    LET head == IF transport = "Http"
                THEN add_pkt_line_string(<<>>, <<"#", SP, "service=">> \o service \o <<LF>>)
                     \o PKT_LINE_END_MARKER
                ELSE <<>>
    IN  add_ref_lines(head, ref_list) \o PKT_LINE_END_MARKER

\* refs.iter().find(|(name, _)| name == "HEAD" || name.ends_with("/main")
\*     || name.ends_with("/master")).map(hash).unwrap_or(forty zeros)
RECURSIVE head_hash_of(_)
head_hash_of(refs) ==
    IF refs = <<>> THEN <<"0000000000000000000000000000000000000000">>
    ELSE IF \/ Head(refs).name = <<"HEAD">>
            \/ ends_with(Head(refs).name, <<SLASH, "main">>)
            \/ ends_with(Head(refs).name, <<SLASH, "master">>)
         THEN Head(refs).hash
         ELSE head_hash_of(Tail(refs))

\* Mutant: the name is written before the hash.
RECURSIVE ref_lines_name_first(_)
ref_lines_name_first(git_refs) ==
    IF git_refs = <<>> THEN <<>>
    ELSE <<Head(git_refs).name \o <<SP>> \o Head(git_refs).hash \o <<LF>>>>
         \o ref_lines_name_first(Tail(git_refs))

\* The ref lines after the first one: `<hash> <name>\n` for every ref.
RECURSIVE ref_lines(_)
ref_lines(git_refs) ==
    IF git_refs = <<>> THEN <<>>
    ELSE <<Head(git_refs).hash \o <<SP>> \o Head(git_refs).name \o <<LF>>>>
         \o ref_lines(Tail(git_refs))

cap_list_of(st) ==
    IF st = UploadPack THEN UPLOAD_CAP_LIST \o COMMON_CAP_LIST
    ELSE RECEIVE_CAP_LIST \o COMMON_CAP_LIST

\* Mutant: the first ref line is always named HEAD.
first_ref_line_always_head(head_hash, st) ==
    head_hash \o <<SP, "HEAD", NUL>> \o cap_list_of(st) \o <<LF>>

\* The first ref line: capability declarations behind a NUL.
first_ref_line(head_hash, st) ==
    head_hash \o <<SP>>
        \o (IF head_hash = ZERO_ID THEN <<"capabilities^{}">> ELSE <<"HEAD">>)
        \o <<NUL>> \o cap_list_of(st) \o <<LF>>

\* Mutant: the refs are read before the service type is looked at.
info_refs_reads_first(transport, st, refs) ==
    IF ~refs.ok
    THEN [ calls |-> <<Call("get_repository_refs", <<>>, refs)>>,
           ret |-> repository_error(<<"Failed", SP, "to", SP, "get", SP, "refs:", SP>>
                                    \o to_string(refs)) ]
    ELSE IF ~st.some
    THEN [ calls |-> <<Call("get_repository_refs", <<>>, refs)>>,
           ret |-> repository_error(<<"Service", SP, "type", SP, "not", SP, "set">>) ]
    ELSE [ calls |-> <<Call("get_repository_refs", <<>>, refs)>>,
           ret |-> Ok(build_smart_reply(transport,
                        <<first_ref_line(head_hash_of(refs.v), st.v)>> \o ref_lines(refs.v),
                        service_name(st.v))) ]

\* git_info_refs(repo_path) with the answer refs of get_repository_refs.
info_refs(transport, st, refs) ==
    IF ~st.some
    THEN [ calls |-> <<>>,
           ret |-> repository_error(<<"Service", SP, "type", SP, "not", SP, "set">>) ]
    ELSE IF ~refs.ok
    THEN [ calls |-> <<Call("get_repository_refs", <<>>, refs)>>,
           ret |-> repository_error(<<"Failed", SP, "to", SP, "get", SP, "refs:", SP>>
                                    \o to_string(refs)) ]
    ELSE [ calls |-> <<Call("get_repository_refs", <<>>, refs)>>,
           ret |-> Ok(build_smart_reply(transport,
                        <<first_ref_line(head_hash_of(refs.v), st.v)>> \o ref_lines(refs.v),
                        service_name(st.v))) ]

GitRef(name, hash) == [name |-> name, hash |-> hash]
RefMaster == <<"refs", SLASH, "heads", SLASH, "master">>

RefsAnswers ==
    { Ok(<<>>),
      Ok(<<GitRef(<<"HEAD">>, H1), GitRef(RefMain, H1)>>),
      Ok(<<GitRef(RefMain, H1), GitRef(<<"HEAD">>, H2)>>),
      Ok(<<GitRef(<<"HEAD">>, ZERO_ID), GitRef(RefMain, H1)>>),
      Ok(<<GitRef(RefMaster, H2), GitRef(RefMain, H1)>>),
      Ok(<<GitRef(RefTag, H3)>>),
      Err("RepositoryError", <<"no", SP, "such", SP, "repository">>) }

git_info_refs ==
    \E refs \in RefsAnswers :
      \E r \in {info_refs(transport_protocol, service_type, refs)} :
        /\ op' = "git_info_refs"
        /\ input' = <<>>
        /\ calls' = r.calls
        /\ ret' = r.ret
        /\ UNCHANGED session

\* ----------------------------------------------------- build_side_band_format
\* format!("{length:04x}"): at least four hex digits, more when they are needed.
format_04x(length) ==
    IF length < 65536 THEN Hex4(length)
    ELSE <<HexDigits[((length \div 65536) % 16) + 1]>> \o Hex4(length % 65536)

\* Mutant: the band byte is not counted in the length.
side_band_format_short(caps, from_bytes, length) ==
    IF Contains(caps, "SideBand") \/ Contains(caps, "SideBand64k")
    THEN format_04x(length + 4) \o <<PackfileData>> \o from_bytes
    ELSE from_bytes

\* build_side_band_format(from_bytes, length) on a session of capabilities caps.
side_band_format(caps, from_bytes, length) ==
    IF Contains(caps, "SideBand") \/ Contains(caps, "SideBand64k")
    THEN format_04x(length + 5) \o <<PackfileData>> \o from_bytes
    ELSE from_bytes

\* Chunks of pack data, each passed with its own length.
SideBandChunks == {<<>>, <<"PACK">>, <<"PACK", NUL, "objects", LF>>, <<BLOB>>}

build_side_band_format ==
    \E from_bytes \in SideBandChunks :
        /\ op' = "build_side_band_format"
        /\ input' = from_bytes
        /\ calls' = <<>>
        /\ ret' = Ok(side_band_format(capabilities, from_bytes, BytesLen(from_bytes)))
        /\ UNCHANGED session

\* ------------------------------------------------------------ specifications
\* Every operation of a session, in any order.
Next ==
    \/ set_service_type
    \/ set_transport_protocol
    \/ parse_receive_pack_commands
    \/ git_receive_pack_stream
    \/ git_upload_pack
    \/ git_info_refs
    \/ build_side_band_format

Spec == Init /\ [][Next]_vars

\* A push: the operations that read or write command_list.
NextReceive ==
    \/ parse_receive_pack_commands
    \/ git_receive_pack_stream

SpecReceive == Init /\ [][NextReceive]_vars

\* A fetch: the operations that read or write capabilities.
NextUpload ==
    \/ set_service_type
    \/ git_upload_pack

SpecUpload == Init /\ [][NextUpload]_vars

\* Pack data sent on a session whose capabilities a fetch request sets.
NextSideBand ==
    \/ git_upload_pack
    \/ build_side_band_format

SpecSideBand == Init /\ [][NextSideBand]_vars

\* The three services of a session whose command_list is empty, with the
\* service type set or not.
NextService ==
    \/ set_service_type
    \/ set_transport_protocol
    \/ git_info_refs
    \/ git_upload_pack
    \/ git_receive_pack_stream

SpecService == Init /\ [][NextService]_vars

\* ---------------------------------------------------------------- properties
\* What the last operation did, read from the record of its calls.
CallsOf(cs, fn) == SelectSeq(cs, LAMBDA c : c.fn = fn)

IsReceive == op = "git_receive_pack_stream"
IsUpload == op = "git_upload_pack"
IsInfoRefs == op = "git_info_refs"

\* has_default_branch answered, and what it answered.
HdbAnswered(cs) == \E i \in 1..Len(cs) : cs[i].fn = "has_default_branch" /\ cs[i].res.ok
HdbAnswer(cs) == CallsOf(cs, "has_default_branch")[1].res.v = True

HookSucceeded(cs) == \E i \in 1..Len(cs) : cs[i].fn = "post_receive_hook" /\ cs[i].res.ok

\* The first token of a pkt-line, and the second.
Verb(line) == read_until_white_space(line).word
RefOfLine(line) == read_until_white_space(read_until_white_space(line).rest).word

\* The ok/ng lines of a status report, in order.
StatusLines(report) ==
    SelectSeq(PktLines(report), LAMBDA l : Verb(l) \in {<<"ok">>, <<"ng">>})

Flagged(cmds) == {i \in 1..Len(cmds) : cmds[i].default_branch}
Branches(cmds) == {i \in 1..Len(cmds) : cmds[i].ref_type = "Branch"}
FirstBranch(cmds) == {i \in Branches(cmds) : \A j \in Branches(cmds) : i <= j}

\* C1: a status report holds exactly one ok/ng line per command of
\* command_list, in list order: the i-th names the ref of the i-th command.
C1_OneStatusLinePerCommand ==
    (IsReceive /\ ret.ok) =>
        \E lines \in {StatusLines(ret.v)} :
            /\ Len(lines) = Len(command_list)
            /\ \A i \in 1..Len(command_list) : RefOfLine(lines[i]) = command_list[i].ref_name

\* A report over two commands of different refs, one applied and one failed.
C1_Witness ==
    /\ IsReceive /\ ret.ok
    /\ Len(command_list) = 2
    /\ command_list[1].ref_name # command_list[2].ref_name
    /\ command_list[1].status = "ng" /\ command_list[2].status = "ok"

\* C2 as stated: update_reference is called once per command in list order
\* whatever the earlier outcomes, and when the call returns its report, a
\* command whose update failed is reported `ng <ref> <message>` and every
\* other command `ok <ref>`; the update failures do not make the call fail.
C2_FailureRecoveredLocally ==
    (IsReceive /\ HdbAnswered(calls)) =>
        \E U \in {CallsOf(calls, "update_reference")} :
            /\ Len(U) = Len(command_list)
            /\ \A i \in 1..Len(U) : U[i].args[1] = command_list[i].ref_name
            /\ HookSucceeded(calls) =>
                /\ ret.ok
                /\ \E lines \in {PktLines(ret.v)} :
                    \A i \in 1..Len(U) :
                        IF U[i].res.ok
                        THEN starts_with(lines[i + 1], <<"ok", SP>> \o U[i].args[1])
                        ELSE starts_with(lines[i + 1], <<"ng", SP>> \o U[i].args[1] \o <<SP>>
                                                       \o to_string(U[i].res))

\* C3: at most one command of command_list has default_branch = true, and
\* that command is a branch, never a tag.
C3_AtMostOneDefaultBranch ==
    /\ Cardinality(Flagged(command_list)) <= 1
    /\ \A i \in Flagged(command_list) : command_list[i].ref_type = "Branch"

\* Two branch commands went through a call that promoted one of them.
C3_Witness ==
    /\ IsReceive
    /\ Len(command_list) = 2
    /\ Branches(command_list) = {1, 2}
    /\ Flagged(command_list) # {}

\* C4: in a call where has_default_branch answers false, the flag ends up on
\* exactly the first branch command of the list, and the tag commands before
\* it are still passed to update_reference; in a call where it answers true,
\* or on a list of tags only, no command gets the flag.
C4_FlagOnFirstBranchOnly ==
    [][ (op' = "git_receive_pack_stream" /\ HdbAnswered(calls')) =>
            /\ ~HdbAnswer(calls') => Flagged(command_list') = FirstBranch(command_list)
            /\ HdbAnswer(calls') => Flagged(command_list') = Flagged(command_list)
            /\ Branches(command_list) = {} => Flagged(command_list') = {}
            /\ \E U \in {CallsOf(calls', "update_reference")} :
                /\ Len(U) = Len(command_list)
                /\ \A i \in 1..Len(U) : U[i].args[1] = command_list[i].ref_name
      ]_vars

\* A tag followed by a branch, has_default_branch answering false: the branch
\* is flagged, the tag is not, and the tag was passed to update_reference.
C4_Witness ==
    /\ IsReceive /\ HdbAnswered(calls) /\ ~HdbAnswer(calls)
    /\ Len(command_list) = 2
    /\ command_list[1].ref_type = "Tag" /\ command_list[2].ref_type = "Branch"
    /\ Flagged(command_list) = {2}
    /\ CallsOf(calls, "update_reference")[1].args[1] = command_list[1].ref_name

\* The haves commit_exists reported present, in the order they were asked.
RECURSIVE PresentHaves(_)
PresentHaves(cs) ==
    IF cs = <<>> THEN <<>>
    ELSE (IF Head(cs).fn = "commit_exists" /\ Head(cs).res = Ok(True)
          THEN <<Head(cs).args[1]>> ELSE <<>>)
         \o PresentHaves(Tail(cs))

\* The requests made to the pack generator.
PackCalls(cs) ==
    SelectSeq(cs, LAMBDA c : c.fn \in {"generate_full_pack", "generate_incremental_pack"})

\* want and have as the parsing loop reads them from the request.
ParsedRequest == upload_parse(input, <<>>, <<>>, <<>>, FALSE)

\* C5: a response to a request whose haves are empty or all absent carries
\* exactly one pkt-line, `NAK\n` (no ACK, no flush), and a full pack of the
\* wants was requested, not an incremental one.
C5_NakAndFullPack ==
    (IsUpload /\ ret.ok /\ PresentHaves(calls) = <<>>) =>
        /\ PktLines(ret.v) = << <<"NAK", LF>> >>
        /\ \E P \in {PackCalls(calls)} :
            /\ Len(P) = 1
            /\ P[1].fn = "generate_full_pack"
            /\ P[1].args = <<ParsedRequest.want>>

\* Two haves, both reported absent, answered by NAK.
C5_Witness ==
    /\ IsUpload /\ ret.ok
    /\ Len(CallsOf(calls, "commit_exists")) = 2
    /\ PresentHaves(calls) = <<>>
    /\ PktLines(ret.v) = << <<"NAK", LF>> >>

\* `ACK <hash> common\n` for every hash of a list, in order.
RECURSIVE CommonLines(_)
CommonLines(hashes) ==
    IF hashes = <<>> THEN <<>>
    ELSE << <<"ACK", SP>> \o Head(hashes) \o <<SP, "common", LF>> >>
         \o CommonLines(Tail(hashes))

\* C6 as stated: a response to a request of which at least one have is
\* reported present is `ACK <hash> common\n` for every present have in the
\* order received, then `ACK <h> ready\n`, a flush, `ACK <h> \n` with <h> the
\* earliest present have, no NAK, and an incremental pack of (wants, haves)
\* was requested.
C6_AckReadyForEarliestCommon ==
    (IsUpload /\ ret.ok /\ PresentHaves(calls) # <<>>) =>
        \E present \in {PresentHaves(calls)} :
            /\ PktLines(ret.v) =
                   CommonLines(present)
                   \o << <<"ACK", SP>> \o present[1] \o <<SP, "ready", LF>>,
                         <<>>,
                         <<"ACK", SP>> \o present[1] \o <<SP, LF>> >>
            /\ \E P \in {PackCalls(calls)} :
                /\ Len(P) = 1
                /\ P[1].fn = "generate_incremental_pack"
                /\ P[1].args = <<ParsedRequest.want, ParsedRequest.have>>

\* The status line the claim C7 gives a command whose update was answered a.
ClaimedStatusLine(ref_name, a) ==
    IF a.ok THEN <<"ok", SP>> \o ref_name \o <<LF>>
    ELSE <<"ng", SP>> \o ref_name \o <<SP>> \o to_string(a) \o <<LF>>

RECURSIVE ClaimedStatusLines(_)
ClaimedStatusLines(U) ==
    IF U = <<>> THEN <<>>
    ELSE <<ClaimedStatusLine(Head(U).args[1], Head(U).res)>> \o ClaimedStatusLines(Tail(U))

\* C7 as stated: a report is `unpack ok\n`, then per command `ok <ref>\n` if
\* its update succeeded else `ng <ref> <message>\n`, then the flush marker.
C7_ReportAsStated ==
    (IsReceive /\ ret.ok) =>
        PktLines(ret.v) =
            << <<"unpack", SP, "ok", LF>> >>
            \o ClaimedStatusLines(CallsOf(calls, "update_reference"))
            \o << <<>> >>

\* C7 amended: a report is the pkt-line `unpack ok\n`, then for each command
\* of command_list, in order, the pkt-line `ok <ref>` with no line feed when
\* the command's status is ok, else a pkt-line that begins
\* `ng <ref> <error_msg>`, then one flush marker and nothing after it; a
\* command whose update failed in this call has status ng and the message of
\* that failure.  For the creation of refs/heads/main alone, succeeding on a
\* new session, the report is `unpack ok\n`, `ok refs/heads/main`, flush, with
\* one update_reference call and one post_receive_hook call.
C7_ReportLayout ==
    (IsReceive /\ ret.ok) =>
        \E lines \in {PktLines(ret.v)}, U \in {CallsOf(calls, "update_reference")} :
            /\ ret.v = add_ref_lines(<<>>, SubSeq(lines, 1, Len(lines) - 1))
                       \o PKT_LINE_END_MARKER
            /\ Len(lines) = Len(command_list) + 2
            /\ lines[1] = <<"unpack", SP, "ok", LF>>
            /\ lines[Len(lines)] = <<>>
            /\ Len(U) = Len(command_list)
            /\ \A i \in 1..Len(command_list) :
                /\ ~U[i].res.ok =>
                    /\ command_list[i].status = "ng"
                    /\ command_list[i].error_msg = to_string(U[i].res)
                /\ IF command_list[i].status = "ok"
                   THEN lines[i + 1] = <<"ok", SP>> \o command_list[i].ref_name
                   ELSE starts_with(lines[i + 1],
                                    <<"ng", SP>> \o command_list[i].ref_name \o <<SP>>
                                    \o command_list[i].error_msg)
            /\ ( /\ Len(command_list) = 1
                 /\ command_list[1].ref_name = RefMain
                 /\ command_list[1].status = "ok" ) =>
                    /\ lines = << <<"unpack", SP, "ok", LF>>,
                                  <<"ok", SP>> \o RefMain,
                                  <<>> >>
                    /\ Len(U) = 1
                    /\ Len(CallsOf(calls, "post_receive_hook")) = 1

\* The push of the test: refs/heads/main created, one update, one hook call,
\* a report of three pkt-lines.
C7_Witness ==
    /\ IsReceive /\ ret.ok
    /\ Len(command_list) = 1
    /\ command_list[1].ref_name = RefMain
    /\ command_list[1].old_hash = ZERO_ID
    /\ command_list[1].status = "ok"
    /\ Len(PktLines(ret.v)) = 3
    /\ CallsOf(calls, "update_reference")[1].args[2] = None

ServiceOps == {"git_info_refs", "git_upload_pack", "git_receive_pack_stream"}

\* C8 as stated: with service_type unset, each of the three services fails
\* and makes no collaborator call.
C8_AllServicesNeedServiceType ==
    (op \in ServiceOps /\ ~service_type.some) => (~ret.ok /\ calls = <<>>)

\* C8 amended: with service_type unset, git_info_refs fails with the
\* repository error `Service type not set` and makes no collaborator call;
\* git_upload_pack and git_receive_pack_stream do not look at service_type:
\* they go on to their collaborators (the pack generator, commit_exists, the
\* pack codec) unless the input stream itself fails.
C8_OnlyInfoRefsNeedsServiceType ==
    ~service_type.some =>
        /\ IsInfoRefs =>
            /\ ret = repository_error(<<"Service", SP, "type", SP, "not", SP, "set">>)
            /\ calls = <<>>
        /\ IsUpload => calls # <<>>
        /\ IsReceive => (calls # <<>> \/ ret.kind = "InvalidRequest")

\* git_info_refs ran on a session whose service type was never set.
C8_Witness ==
    /\ IsInfoRefs
    /\ ~service_type.some
    /\ ~ret.ok

\* The answer of the pack codec in the last call, if it was asked.
UnpackFailed(cs) == \E i \in 1..Len(cs) : cs[i].fn = "unpack_stream" /\ ~cs[i].res.ok

\* C9 as stated: when the codec fails, a status report with the line
\* `unpack <message>\n` is produced and update_reference is not called.
C9_UnpackErrorReported ==
    (IsReceive /\ UnpackFailed(calls)) =>
        /\ ret.ok
        /\ \E lines \in {PktLines(ret.v)} :
            \E i \in 1..Len(lines) :
                lines[i] = <<"unpack", SP>> \o to_string(calls[1].res) \o <<LF>>
        /\ CallsOf(calls, "update_reference") = <<>>

\* C9 amended: when the codec fails, the call returns the codec's error and
\* no status report; the codec call is the only collaborator call, so
\* update_reference is called for no command and command_list is unchanged.
C9_UnpackErrorReturned ==
    [][ (op' = "git_receive_pack_stream" /\ UnpackFailed(calls')) =>
            /\ ~ret'.ok
            /\ ret' = calls'[1].res
            /\ Len(calls') = 1
            /\ CallsOf(calls', "update_reference") = <<>>
            /\ command_list' = command_list
      ]_vars

\* The codec failed while two commands were waiting.
C9_Witness ==
    /\ IsReceive
    /\ UnpackFailed(calls)
    /\ Len(command_list) = 2
    /\ ret.kind = "PackError"

StreamFailed == \E i \in 1..Len(input) : ~input[i].ok
CallFailed(cs, fn) == \E i \in 1..Len(cs) : cs[i].fn = fn /\ ~cs[i].res.ok

\* C10: a stream chunk that is an error makes the call return InvalidRequest
\* without any collaborator call (handle_pack_objects included); a failure of
\* handle_pack_objects or of has_default_branch makes it return
\* RepositoryError; in all three cases neither update_reference nor
\* post_receive_hook is called.
C10_EarlyFailuresAbort ==
    IsReceive =>
        /\ StreamFailed =>
            /\ ~ret.ok /\ ret.kind = "InvalidRequest"
            /\ calls = <<>>
        /\ (CallFailed(calls, "handle_pack_objects") \/ CallFailed(calls, "has_default_branch")) =>
            /\ ~ret.ok /\ ret.kind = "RepositoryError"
            /\ CallsOf(calls, "update_reference") = <<>>
            /\ CallsOf(calls, "post_receive_hook") = <<>>

\* The stream broke after a good chunk while a command was waiting.
C10_Witness ==
    /\ IsReceive
    /\ Len(input) = 2 /\ input[1].ok /\ ~input[2].ok
    /\ command_list # <<>>
    /\ ret.kind = "InvalidRequest"

\* The collaborators git_receive_pack_stream calls.
ReceiveCollaborators ==
    {"unpack_stream", "handle_pack_objects", "has_default_branch", "update_reference",
     "post_receive_hook"}

HookFailed(cs) == CallFailed(cs, "post_receive_hook")

\* C11: in a call that reaches the ref updates, post_receive_hook is called
\* exactly once, as the last collaborator call, after update_reference has
\* been called for every command of command_list (failed or not); the calls
\* made are calls of the pack codec and of the five repository operations
\* only, so nothing is rolled back; and if the hook fails the call returns a
\* repository error (no status report) while the commands keep the outcome
\* of their updates.
C11_HookOnceAfterAllUpdates ==
    (IsReceive /\ HdbAnswered(calls)) =>
        \E n \in {Len(calls)}, U \in {CallsOf(calls, "update_reference")} :
            /\ Len(CallsOf(calls, "post_receive_hook")) = 1
            /\ calls[n].fn = "post_receive_hook"
            /\ Len(U) = Len(command_list)
            /\ \A i \in 1..Len(U) : U[i].args[1] = command_list[i].ref_name
            /\ \A i \in 1..n : calls[i].fn \in ReceiveCollaborators
            /\ \A i \in 1..(n - 1) : calls[i].fn # "post_receive_hook"
            /\ HookFailed(calls) =>
                /\ ~ret.ok
                /\ ret = repository_error(<<"Post-receive", SP, "hook", SP, "failed:", SP>>
                                          \o to_string(calls[n].res))
                /\ \A i \in 1..Len(U) : ~U[i].res.ok => command_list[i].status = "ng"
            /\ ~HookFailed(calls) => ret.ok

\* The hook failed after two updates, one applied and one refused.
C11_Witness ==
    /\ IsReceive /\ HookFailed(calls)
    /\ Len(command_list) = 2
    /\ \E U \in {CallsOf(calls, "update_reference")} :
        /\ Len(U) = 2
        /\ U[1].res.ok /\ ~U[2].res.ok
    /\ ~ret.ok

\* The answer of get_repository_refs in the last git_info_refs call.
RefsAnswered == IsInfoRefs /\ calls # <<>> /\ calls[1].res.ok
RefsRead == calls[1].res.v

\* The ref pkt-lines of an advertisement: what follows the service header
\* and its flush marker (HTTP), up to the closing flush marker.
AdvertisedLines(out) ==
    LET lines == PktLines(out)
        from == IF transport_protocol = "Http" THEN 3 ELSE 1
    IN  SubSeq(lines, from, Len(lines) - 1)

\* The hashes of the entries of a ref list whose name satisfies P, in order.
HashesOf(refs, P(_)) ==
    LET hit == SelectSeq(refs, LAMBDA e : P(e.name))
    IN  [i \in 1..Len(hit) |-> hit[i].hash]

\* The HEAD hash by priority over the whole list.
HeadByPriority(refs) ==
    LET heads == HashesOf(refs, LAMBDA n : n = <<"HEAD">>)
        mains == HashesOf(refs, LAMBDA n : ends_with(n, <<SLASH, "main">>))
        masters == HashesOf(refs, LAMBDA n : ends_with(n, <<SLASH, "master">>))
    IN  IF heads # <<>> THEN heads[1]
        ELSE IF mains # <<>> THEN mains[1]
        ELSE IF masters # <<>> THEN masters[1]
        ELSE ZERO_ID

\* C12 as stated: the hash of the first ref line of an advertisement is the
\* hash of the entry named HEAD if the ref list has one, otherwise of a ref
\* ending in /main, otherwise of a ref ending in /master, otherwise ZERO_ID,
\* whatever the order of the list.
C12_HeadHashByPriority ==
    (RefsAnswered /\ ret.ok) =>
        Verb(AdvertisedLines(ret.v)[1]) = HeadByPriority(RefsRead)

\* A client's reading of ref pkt-lines: `<hash> SP <name>`, the name ending
\* at the NUL that opens the capability string or at the line feed.
ParseRefLines(lines) ==
    [i \in 1..Len(lines) |-> [name |-> RefOfLine(lines[i]), hash |-> Verb(lines[i])]]

\* C13 as stated: the ref lines of an advertisement, parsed and stripped of
\* the capability string, are the ref list get_repository_refs returned:
\* same entries, same order, none added, duplicated or dropped.
C13_RefLinesAreTheRefList ==
    (RefsAnswered /\ ret.ok) =>
        ParseRefLines(AdvertisedLines(ret.v)) = RefsRead

\* C13 amended: the ref lines of an advertisement are one line more than the
\* ref list: the first ref line, named HEAD or capabilities^{}, is added in
\* front, and the lines after it, parsed, are the ref list get_repository_refs
\* returned, same entries in the same order.
C13_RefListFollowsFirstLine ==
    (RefsAnswered /\ ret.ok) =>
        \E parsed \in {ParseRefLines(AdvertisedLines(ret.v))} :
            /\ Len(parsed) = Len(RefsRead) + 1
            /\ parsed[1].name \in {<<"HEAD">>, <<"capabilities^{}">>}
            /\ Tail(parsed) = RefsRead

\* A list of two refs, HEAD among them, advertised over HTTP in three lines,
\* the first of them named HEAD too.
C13_Witness ==
    /\ RefsAnswered /\ ret.ok
    /\ transport_protocol = "Http"
    /\ Len(RefsRead) = 2
    /\ \E i \in 1..2 : RefsRead[i].name = <<"HEAD">>
    /\ \E parsed \in {ParseRefLines(AdvertisedLines(ret.v))} :
        /\ Len(parsed) = 3
        /\ parsed[1].name = <<"HEAD">>

\* C14: the first ref line of an advertisement is
\* `<head_hash> <name>\0<cap_list>\n`, with cap_list UPLOAD_CAP_LIST then
\* COMMON_CAP_LIST for UploadPack and RECEIVE_CAP_LIST then COMMON_CAP_LIST
\* for ReceivePack, and <name> `capabilities^{}` exactly when head_hash is
\* ZERO_ID (as it is for the empty ref list) and `HEAD` otherwise; no later
\* ref line holds a NUL, so none carries a capability string.
C14_FirstRefLine ==
    (RefsAnswered /\ ret.ok) =>
        \E lines \in {AdvertisedLines(ret.v)} :
          \E head_hash \in {Verb(lines[1])} :
            /\ lines[1] =
                   head_hash \o <<SP>>
                   \o (IF head_hash = ZERO_ID THEN <<"capabilities^{}">> ELSE <<"HEAD">>)
                   \o <<NUL>>
                   \o (IF service_type.v = UploadPack
                       THEN UPLOAD_CAP_LIST \o COMMON_CAP_LIST
                       ELSE RECEIVE_CAP_LIST \o COMMON_CAP_LIST)
                   \o <<LF>>
            /\ RefsRead = <<>> => head_hash = ZERO_ID
            /\ head_hash # ZERO_ID => \E i \in 1..Len(RefsRead) : RefsRead[i].hash = head_hash
            /\ \A i \in 2..Len(lines) : ~Contains(lines[i], NUL)

\* The advertisement of a repository without refs, for receive-pack.
C14_Witness ==
    /\ RefsAnswered /\ ret.ok
    /\ RefsRead = <<>>
    /\ service_type.v = ReceivePack
    /\ RefOfLine(AdvertisedLines(ret.v)[1]) = <<"capabilities^{}">>

\* The advertisement of a repository with two refs, for upload-pack.
C14_WitnessHead ==
    /\ RefsAnswered /\ ret.ok
    /\ Len(RefsRead) = 2
    /\ service_type.v = UploadPack
    /\ RefOfLine(AdvertisedLines(ret.v)[1]) = <<"HEAD">>

IsSideBand == op = "build_side_band_format"
SideBandActive == Contains(capabilities, "SideBand") \/ Contains(capabilities, "SideBand64k")

\* C15: build_side_band_format(p, |p|) on a session whose capabilities hold
\* SideBand or SideBand64k returns a single pkt-line: four hex digits whose
\* value is |p| + 5, and read_pkt_line gives it back whole as the band byte 1
\* followed by p; on a session with neither capability it returns p
\* unchanged.  The session is not modified.
C15_SideBandEnvelope ==
    [][ op' = "build_side_band_format" =>
            \E p \in {input'}, out \in {ret'.v} :
                /\ session' = session
                /\ ret'.ok
                /\ SideBandActive =>
                    /\ Len(out) = Len(p) + 5
                    /\ \A i \in 1..4 : \E d \in 1..16 : out[i] = HexDigits[d]
                    /\ ParseHex4(SubSeq(out, 1, 4)) = BytesLen(p) + 5
                    /\ \E r \in {read_pkt_line(out)} :
                        /\ r.take = BytesLen(p) + 5
                        /\ r.line = <<PackfileData>> \o p
                        /\ r.rest = <<>>
                /\ ~SideBandActive => out = p
      ]_vars

\* The largest chunk wrapped on a session that asked for side-band-64k.
C15_Witness ==
    /\ IsSideBand
    /\ Contains(capabilities, "SideBand64k")
    /\ input = <<BLOB>>
    /\ SubSeq(ret.v, 1, 4) = <<"f", "f", "f", "0">>

\* A chunk wrapped on a session that asked for side-band.
C15_WitnessSideBand ==
    /\ IsSideBand
    /\ capabilities = <<"SideBand">>
    /\ input = <<"PACK">>
    /\ ret.v = <<"0", "0", "0", "9", PackfileData, "PACK">>

\* A chunk passed through on a session without side-band.
C15_WitnessPlain ==
    /\ IsSideBand
    /\ ~SideBandActive
    /\ input # <<>>
    /\ ret.v = input

BothZero(command) == command.old_hash = ZERO_ID /\ command.new_hash = ZERO_ID

\* C16 as stated: a command whose old_hash and new_hash are both ZERO_ID is
\* never applied: no call passes it to update_reference, and no status
\* report has an `ok` line for it.
C16_BothZeroNeverApplied ==
    IsReceive =>
        /\ \A i \in 1..Len(calls) :
            calls[i].fn = "update_reference" =>
                ~(calls[i].args[2] = None /\ calls[i].args[3] = ZERO_ID)
        /\ ret.ok =>
            \E lines \in {StatusLines(ret.v)} :
                \A i \in 1..Len(command_list) :
                    BothZero(command_list[i]) => Verb(lines[i]) # <<"ok">>

\* The pkt-lines of a request as they stand in the buffer: the payload of
\* each, and whether it is the flush marker 0000.
RECURSIVE RawLines(_)
RawLines(bytes) ==
    IF bytes = <<>> THEN <<>>
    ELSE <<[flush |-> SubSeq(bytes, 1, 4) = PKT_LINE_END_MARKER,
            line |-> read_pkt_line(bytes).line]>>
         \o RawLines(read_pkt_line(bytes).rest)

\* The lines of raw before the first one that satisfies Stop.
LinesBefore(raw, Stop(_)) ==
    LET stops == {i \in 1..Len(raw) : Stop(raw[i])}
    IN  IF stops = {} THEN raw
        ELSE SubSeq(raw, 1, (CHOOSE i \in stops : \A j \in stops : i <= j) - 1)

\* The hashes of the lines whose leading token is verb, in order.
HashesOfLines(raw, verb) ==
    LET hit == SelectSeq(raw, LAMBDA l : Verb(l.line) = verb)
    IN  [i \in 1..Len(hit) |-> RefOfLine(hit[i].line)]

IsPrefix(s, t) == Len(s) <= Len(t) /\ s = SubSeq(t, 1, Len(s))

\* What a call of git_upload_pack shows of want and have: the hashes passed
\* to commit_exists are the haves, in order (all of them unless an answer
\* failed), and the pack generator is given the wants, and the haves for an
\* incremental pack.
UploadUses(wants, haves) ==
    \E E \in {CallsOf(calls, "commit_exists")}, P \in {PackCalls(calls)} :
        /\ IsPrefix([i \in 1..Len(E) |-> E[i].args[1]], haves)
        /\ (\A i \in 1..Len(E) : E[i].res.ok) => Len(E) = Len(haves)
        /\ \A i \in 1..Len(P) :
            /\ P[i].args[1] = wants
            /\ P[i].fn = "generate_incremental_pack" => P[i].args[2] = haves

\* C17 as stated: the parsing loop stops at the first flush marker, the
\* first `done` line or the end of the buffer; wants and haves are the hashes
\* of the want and have lines before that point, in order; any other line,
\* whatever its leading token, is skipped.
C17_StopsAtFlushOrDone ==
    IsUpload =>
        \E read \in {LinesBefore(RawLines(input),
                                 LAMBDA l : l.flush \/ Verb(l.line) = <<"done">>)} :
            UploadUses(HashesOfLines(read, <<"want">>), HashesOfLines(read, <<"have">>))

\* C17 amended: the parsing loop stops at the first pkt-line whose payload is
\* empty (the flush marker 0000, and the empty pkt-line 0004 as well), the
\* first `done` line or the end of the buffer; wants and haves are the hashes
\* of the want and have lines before that point, in order; lines after it
\* contribute nothing; a line with a payload and any other leading token is
\* skipped.
C17_StopsAtEmptyLineOrDone ==
    IsUpload =>
        \E read \in {LinesBefore(RawLines(input),
                                 LAMBDA l : l.line = <<>> \/ Verb(l.line) = <<"done">>)} :
            UploadUses(HashesOfLines(read, <<"want">>), HashesOfLines(read, <<"have">>))

\* A request with an unknown line first and a have line after `done`: one
\* have is checked and the incremental pack is asked for one want, one have.
C17_Witness ==
    /\ IsUpload /\ ret.ok
    /\ input # <<>>
    /\ Verb(RawLines(input)[1].line) = <<"shallow">>
    /\ Len(HashesOfLines(RawLines(input), <<"have">>)) = 2
    /\ Len(CallsOf(calls, "commit_exists")) = 1
    /\ \E P \in {PackCalls(calls)} :
        /\ Len(P) = 1
        /\ P[1].fn = "generate_incremental_pack"
        /\ P[1].args = << <<H1>>, <<H3>> >>

\* A request with an empty pkt-line before its have line: no have is read.
C17_WitnessEmptyLine ==
    /\ IsUpload /\ ret.ok
    /\ \E raw \in {RawLines(input)} :
        /\ Len(raw) = 4
        /\ raw[2].line = <<>> /\ ~raw[2].flush
    /\ CallsOf(calls, "commit_exists") = <<>>
    /\ PackCalls(calls)[1].fn = "generate_full_pack"

\* What follows the second token of a line.
TailOfLine(line) == read_until_white_space(read_until_white_space(line).rest).rest

\* The capabilities the tokens of a string decode into, in order; a token
\* that is no capability name gives none.
DecodedTokens(str) ==
    LET known == SelectSeq(split_whitespace(str, <<>>),
                           LAMBDA t : t \in DOMAIN CapabilityNames)
    IN  [i \in 1..Len(known) |-> CapabilityNames[known[i]]]

\* The lines of a fetch request that the parsing loop reads.
LinesRead(request) ==
    LinesBefore(RawLines(request), LAMBDA l : l.line = <<>> \/ Verb(l.line) = <<"done">>)

\* The capabilities a fetch request asks for: those of the tail of its first
\* want line.
RequestedCapabilities(request) ==
    LET wants == SelectSeq(LinesRead(request), LAMBDA l : Verb(l.line) = <<"want">>)
    IN  IF wants = <<>> THEN <<>> ELSE DecodedTokens(TailOfLine(wants[1].line))

\* C18: git_upload_pack adds to the session's capabilities exactly the
\* tokens of the tail of the first want line that decode into a Capability,
\* in order; tokens that do not decode are dropped, and the tails of later
\* want lines and of have lines add nothing.
C18_CapabilitiesOfFirstWant ==
    [][ op' = "git_upload_pack" =>
            capabilities' = capabilities \o RequestedCapabilities(input')
      ]_vars

\* A first want line with an unknown token and a capability, and a have line
\* with a capability in its tail: the session holds the first one only.
C18_Witness ==
    /\ IsUpload
    /\ input # <<>>
    /\ \E read \in {LinesRead(input)} :
        /\ Len(read) = 2
        /\ split_whitespace(TailOfLine(read[1].line), <<>>)
               = << <<"unknown-cap">>, <<"thin-pack">> >>
        /\ Verb(read[2].line) = <<"have">>
        /\ DecodedTokens(TailOfLine(read[2].line)) = <<"OfsDelta">>
    /\ capabilities = <<"ThinPack">>

\* Two want lines, each with a capability: the session holds the first one.
C18_WitnessLaterWant ==
    /\ IsUpload
    /\ input # <<>>
    /\ \E wants \in {SelectSeq(LinesRead(input), LAMBDA l : Verb(l.line) = <<"want">>)} :
        /\ Len(wants) = 2
        /\ DecodedTokens(TailOfLine(wants[2].line)) = <<"NoDone">>
    /\ capabilities = <<"OfsDelta">>

IsParse == op = "parse_receive_pack_commands"

\* What follows the ref name of a command line: its capabilities tail.
CapabilitiesTail(line) == read_until_white_space(TailOfLine(line)).rest

\* C19 as stated: after parse_receive_pack_commands, the session's
\* capabilities hold every recognised capability token of the tail of the
\* first command line of the request.
C19_FirstCommandSetsCapabilities ==
    (IsParse /\ input # <<>>) =>
        \E wanted \in {DecodedTokens(CapabilitiesTail(RawLines(input)[1].line))} :
            \A i \in 1..Len(wanted) : Contains(capabilities, wanted[i])

\* C20: in a call that reaches the ref updates, the i-th update_reference
\* call is made for the i-th command, branch or tag, with its ref_name, with
\* the expected old value None when its old_hash is ZERO_ID and
\* Some(old_hash) otherwise, and with its new_hash as it is, ZERO_ID included.
C20_UpdateReferenceArguments ==
    (IsReceive /\ HdbAnswered(calls)) =>
        \E U \in {CallsOf(calls, "update_reference")} :
            /\ Len(U) = Len(command_list)
            /\ \A i \in 1..Len(U) :
                U[i].args = << command_list[i].ref_name,
                               IF command_list[i].old_hash = ZERO_ID
                               THEN None ELSE Some(command_list[i].old_hash),
                               command_list[i].new_hash >>

\* A push that deletes a branch and creates another: the deletion is passed
\* with Some(old_hash) and ZERO_ID, the creation with None.
C20_Witness ==
    /\ IsReceive /\ HdbAnswered(calls)
    /\ \E U \in {CallsOf(calls, "update_reference")} :
        /\ Len(U) = 2
        /\ U[1].args = <<RefOther, Some(H2), ZERO_ID>>
        /\ U[2].args = <<RefMain, None, H1>>

\* A tag is passed to update_reference like a branch.
C20_WitnessTag ==
    /\ IsReceive /\ HdbAnswered(calls)
    /\ \E U \in {CallsOf(calls, "update_reference")} :
        /\ Len(U) = 2
        /\ U[1].args = <<RefOther, Some(H1), H2>>
        /\ U[2].args = <<RefTag, None, H1>>

\* C21 as stated: a command is applied once over the life of a session.  A
\* call of git_receive_pack_stream that follows a call which reached the ref
\* updates finds every command of command_list already applied, and calls
\* update_reference for none of them; and a command that already has its
\* terminal status ng, whatever was called in between, is not passed to
\* update_reference again.
C21_CommandsAppliedOnce ==
    [][ op' = "git_receive_pack_stream" =>
            \E U \in {CallsOf(calls', "update_reference")} :
                /\ (IsReceive /\ HdbAnswered(calls)) => U = <<>>
                /\ \A i \in 1..Len(command_list) :
                    command_list[i].status = "ng" =>
                        ~(i <= Len(U) /\ U[i].args[1] = command_list[i].ref_name)
      ]_vars

C22_WitnessDeletion ==
    /\ IsReceive /\ HdbAnswered(calls) /\ ~HdbAnswer(calls)
    /\ Len(command_list) = 2
    /\ command_list[1].new_hash = ZERO_ID /\ command_list[1].old_hash # ZERO_ID
    /\ command_list[2].ref_type = "Branch"
    /\ Flagged(command_list) = {1}

====
